---- MODULE Spec2Model ----
(***************************************************************************)
(* A model of the persistent key-value store of obsidian-pkvs:             *)
(*   - PersistentStore (src/main.ts 368-415): the in-memory mapping `data`, *)
(*     an ordinary JavaScript object, with its property semantics;          *)
(*   - PersistentStoreGlobal (src/main.ts 418-489): the facade window.pkvs  *)
(*     with its persistence override;                                       *)
(*   - serializeJS (src/src/serialize.ts) on the values the store holds;    *)
(*   - the plugin settings and the host's data.json behind                  *)
(*     loadSettings/saveSettings (src/main.ts 152-160).                     *)
(*                                                                         *)
(* JavaScript values are records [kind, v].  The persisted text is kept as  *)
(* the function from property name to the source snippet serializeJS emits  *)
(* for it (the order of the properties in the text is abstracted).          *)
(***************************************************************************)
EXTENDS Integers, FiniteSets, Sequences, TLC

VARIABLES
    data,                     \* PersistentStore.data: [own, proto]
    settings,                 \* PKVSPlugin.settings: [lazyPersistence, persistedData]
    disk,                     \* the durable content of the host's data.json
    lazyPersistenceOverride,  \* PersistentStoreGlobal.lazyPersistenceOverride
    lastIndex,                \* IS_NATIVE_CODE_REGEXP.lastIndex (a /g regexp)
    inflight,                 \* the saveData write the host has not finished yet
    call,                     \* the facade call in progress, or the last one
    failures,                 \* how many writes of the host have failed
    keysUsed,                 \* the property keys the calling script uses
    codec,                    \* a run of the codec alone: value, text, result
    onloadPc,                 \* where PKVSPlugin.onload is
    loadDataPc                \* where the loadData() that onload started is

vars == <<data, settings, disk, lazyPersistenceOverride, lastIndex, inflight, call,
          failures, keysUsed, codec, onloadPc, loadDataPc>>

\* the positions of the startup
startup == <<onloadPc, loadDataPc>>

----------------------------------------------------------------------------
(* Bounds of the model. *)

\* the number of writes of the data file that the host lets fail
MaxWriteFailures == 1

----------------------------------------------------------------------------
(* JavaScript values. *)

Num1 == [kind |-> "number", v |-> "1"]
Num2 == [kind |-> "number", v |-> "2"]
Null == [kind |-> "null", v |-> "null"]
Undefined == [kind |-> "undefined", v |-> "undefined"]
True == [kind |-> "boolean", v |-> "true"]
False == [kind |-> "boolean", v |-> "false"]
ObjectString == [kind |-> "string", v |-> "[object Object]"]

\* the built-in functions an ordinary object inherits
NativeToString == [kind |-> "function", v |-> "Object.prototype.toString"]
NativeHasOwnProperty == [kind |-> "function", v |-> "Object.prototype.hasOwnProperty"]
NativeObject == [kind |-> "function", v |-> "Object"]
NativeFunctionToString == [kind |-> "function", v |-> "Function.prototype.toString"]
NativeFunction == [kind |-> "function", v |-> "Function"]
\* the object Object.prototype itself, as a value
ObjectPrototype == [kind |-> "object", v |-> "Object.prototype"]

\* the marker of "no own property of that name" (not a JavaScript value)
NoProp == [kind |-> "none", v |-> "none"]

\* the property keys of the model: an ordinary name, names that
\* Object.prototype defines, and a symbol
SymbolKey == "Symbol(s)"
StringKeys == {"k", "toString", "constructor", "hasOwnProperty", "__proto__"}
Keys == StringKeys \cup {SymbolKey}

\* the values a calling script passes to store()
StoreValues == {Num1, Num2, Null, NativeToString}

\* typeof v is "object" or "function": what the __proto__ setter accepts
IsObjectOrNull(v) == v.kind \in {"null", "object", "function"}

----------------------------------------------------------------------------
(* The property semantics of the object PersistentStore.data. *)

\* the prototype objects data can have: Object.prototype (the prototype of
\* what eval returns for an object literal), null, or a function stored
\* through the __proto__ setter
ProtoOf(v) == IF v.kind = "null" THEN "null" ELSE v.v

\* what the prototype chain starting at `proto` gives for `key`
Inherited(proto, key) ==
    CASE proto = "null" -> Undefined
      [] proto = "Object.prototype" ->
            CASE key = "toString" -> NativeToString
              [] key = "constructor" -> NativeObject
              [] key = "hasOwnProperty" -> NativeHasOwnProperty
              [] key = "__proto__" -> ObjectPrototype
              [] OTHER -> Undefined
      [] OTHER -> \* a function object: Function.prototype, then Object.prototype
            CASE key = "toString" -> NativeFunctionToString
              [] key = "constructor" -> NativeFunction
              [] key = "hasOwnProperty" -> NativeHasOwnProperty
              [] key = "__proto__" -> [kind |-> "function", v |-> proto]
              [] OTHER -> Undefined

\* this.data[key]
Get(d, key) ==
    IF d.own[key] # NoProp THEN d.own[key] ELSE Inherited(d.proto, key)

\* this.data[key] = value
Set(d, key, value) ==
    IF d.own[key] = NoProp /\ key = "__proto__" /\ d.proto # "null"
    THEN \* the accessor Object.prototype.__proto__ runs
         IF IsObjectOrNull(value) THEN [d EXCEPT !.proto = ProtoOf(value)] ELSE d
    ELSE [d EXCEPT !.own[key] = value]

\* delete this.data[key]
Delete(d, key) == [d EXCEPT !.own[key] = NoProp]

----------------------------------------------------------------------------
(* The value graphs serializeJS takes.  A string is [kind "string", v its   *)
(* content]; a Date has v its ISO string; a function written in JavaScript  *)
(* v the name of its form; an Array has the sequence of its elements,       *)
(* NoProp being a hole; an Object the sequence of its <<name, value>>       *)
(* properties; a Map the sequence of its <<key, value>> entries; a Set the  *)
(* sequence of its elements.                                                *)

String(s) == [kind |-> "string", v |-> s]
Digits == <<"0", "1", "2", "3", "4", "5", "6", "7", "8", "9">>
\* String(n) of a small number, and its inverse
NumberString(n) == Digits[n + 1]
Number(n) == [kind |-> "number", v |-> NumberString(n)]
ToNumber(value) == CHOOSE n \in 0..(Len(Digits) - 1) : NumberString(n) = value.v
NaN == [kind |-> "number", v |-> "NaN"]
Infinity == [kind |-> "number", v |-> "Infinity"]
NegativeInfinity == [kind |-> "number", v |-> "-Infinity"]
BigInt(digits) == [kind |-> "bigint", v |-> digits]
NewDate(iso) == [kind |-> "Date", v |-> iso]
NewRegExp(source, flags) == [kind |-> "RegExp", source |-> source, flags |-> flags]
NewURL(href) == [kind |-> "URL", v |-> href]
Array(elements) == [kind |-> "Array", elements |-> elements]
Object(properties) == [kind |-> "Object", properties |-> properties]
NewMap(entries) == [kind |-> "Map", entries |-> entries]
NewSet(elements) == [kind |-> "Set", elements |-> elements]
Function(form) == [kind |-> "function", v |-> form]

\* obj[name] of an Object value: NoProp when it has no such property
Property(obj, name) ==
    IF \E i \in DOMAIN obj.properties : obj.properties[i][1] = name
    THEN obj.properties[CHOOSE i \in DOMAIN obj.properties :
                            obj.properties[i][1] = name][2]
    ELSE NoProp

----------------------------------------------------------------------------
(* serializeJS on the mapping, and its inverse eval. *)

\* the order in which JSON.stringify visits the string-keyed properties
KeyOrder == <<"k", "toString", "constructor", "hasOwnProperty", "__proto__">>

\* the snippet of a property that the text does not have
NoText == ""
EmptyText == [key \in StringKeys |-> NoText]

\* fn.toString() of a built-in function
FunctionName(fn) ==
    CASE fn = NativeHasOwnProperty -> "hasOwnProperty"
      [] fn = NativeObject -> "Object"
      [] fn = NativeFunction -> "Function"
      [] OTHER -> "toString"
FunctionSource(fn) == "function " \o FunctionName(fn) \o "() { [native code] }"

\* where /\{\s*\[native code\]\s*\}/ matches in a source text: the match
\* "{ [native code] }" is the end of a built-in's source
NativeCodeMatch == "{ [native code] }"
MatchStart(source) == Len(source) - Len(NativeCodeMatch)

\* IS_NATIVE_CODE_REGEXP.test(source): the regexp has the g flag, so the
\* search starts at lastIndex; a match leaves lastIndex at its end, a
\* failure resets it to 0
RegExpTest(source, li) ==
    IF li <= MatchStart(source)
    THEN [matched |-> TRUE, lastIndex |-> Len(source)]
    ELSE [matched |-> FALSE, lastIndex |-> 0]

\* serializeFunc(fn): throws on a source the regexp matches, and else
\* returns the source text
serializeFunc(fn, li) ==
    LET t == RegExpTest(FunctionSource(fn), li)
    IN  [threw |-> t.matched,
         text |-> IF t.matched THEN NoText ELSE FunctionSource(fn),
         lastIndex |-> t.lastIndex]

\* !value of the replacer
Falsy(value) ==
    \/ value.kind = "null"
    \/ value.kind = "boolean" /\ value.v = "false"
    \/ value.kind = "number" /\ value.v \in {"0", "NaN"}
    \/ value.kind = "string" /\ value.v = ""

\* origValue.filter(() => true).length !== origValue.length
isSparse(value) == \E i \in DOMAIN value.elements : value.elements[i] = NoProp

\* the replacer of serializeJS: the tag of the placeholder it returns for
\* a value, or "json" when it returns the value to JSON.stringify
replacer(value) ==
    IF Falsy(value)
    THEN "json"   \* !value && value !== undefined && value !== BigInt(0)
    ELSE CASE value.kind = "RegExp" -> "R"
           [] value.kind = "Date" -> "D"
           [] value.kind = "Map" -> "M"
           [] value.kind = "Set" -> "S"
           [] value.kind = "Array" -> IF isSparse(value) THEN "A" ELSE "json"
           [] value.kind = "URL" -> "L"
           [] value.kind = "function" -> "F"
           [] value.kind = "undefined" -> "U"
           [] value.kind = "number" ->
                 IF value.v \in {"Infinity", "-Infinity"} THEN "I" ELSE "json"
           [] value.kind = "bigint" -> "B"
           [] OTHER -> "json"

\* JSON.stringify of a number or null
JSONStringify(value) == value.v

\* serializeJS(this.data) from position i of KeyOrder on, with the text
\* built so far: the placeholders are replaced in the order of the text
RECURSIVE serializeFrom(_, _, _, _)
serializeFrom(own, i, text, li) ==
    IF i > Len(KeyOrder)
    THEN [threw |-> FALSE, text |-> text, lastIndex |-> li]
    ELSE LET key == KeyOrder[i]
             value == own[key]
         IN  IF value = NoProp
             THEN serializeFrom(own, i + 1, text, li)
             ELSE CASE replacer(value) = "F" ->
                         LET f == serializeFunc(value, li)
                         IN  IF f.threw
                             THEN [threw |-> TRUE, text |-> EmptyText,
                                   lastIndex |-> f.lastIndex]
                             ELSE serializeFrom(own, i + 1,
                                      [text EXCEPT ![key] = f.text], f.lastIndex)
                    [] replacer(value) = "U" ->
                         serializeFrom(own, i + 1,
                             [text EXCEPT ![key] = "undefined"], li)
                    [] OTHER ->
                         serializeFrom(own, i + 1,
                             [text EXCEPT ![key] = JSONStringify(value)], li)

\* serializeJS(obj): symbol-keyed properties are not visited by
\* JSON.stringify
serializeJS(obj, li) == serializeFrom(obj.own, 1, EmptyText, li)

\* the value of a snippet that is an expression
Evaluate(snippet) ==
    CASE snippet = "1" -> Num1
      [] snippet = "2" -> Num2
      [] snippet = "null" -> Null
      [] OTHER -> Undefined

\* a snippet eval cannot parse: the source of a built-in function
IsSyntaxError(snippet) == snippet \notin {NoText, "1", "2", "null", "undefined"}

\* PersistentStore.loadFromString(text): eval of "(" + text + ")".  In an
\* object literal "__proto__": v sets the prototype when v is an object or
\* null and is ignored otherwise; it never makes an own property.
loadFromString(text) ==
    IF \E key \in StringKeys : IsSyntaxError(text[key])
    THEN [threw |-> TRUE,
          value |-> [own |-> [key \in Keys |-> NoProp], proto |-> "Object.prototype"]]
    ELSE [threw |-> FALSE,
          value |->
            [own |-> [key \in Keys |->
                        IF key \in StringKeys \ {"__proto__"} /\ text[key] # NoText
                        THEN Evaluate(text[key]) ELSE NoProp],
             proto |-> IF text["__proto__"] # NoText
                          /\ IsObjectOrNull(Evaluate(text["__proto__"]))
                       THEN ProtoOf(Evaluate(text["__proto__"]))
                       ELSE "Object.prototype"]]

----------------------------------------------------------------------------
(* The functions written in JavaScript. *)

\* fn.toString() of the functions written in JavaScript, as the sequence of
\* the tokens of the source text
FunctionForms ==
    [functionExpression |-> <<"function", "(", ")", "{", "}">>,
     asyncFunctionExpression |-> <<"async", "function", "(", ")", "{", "}">>,
     generatorFunctionExpression |-> <<"function", "*", "(", ")", "{", "}">>,
     arrow |-> <<"(", ")", "=>", "1">>,
     method |-> <<"f", "(", ")", "{", "}">>,
     asyncMethod |-> <<"async", "f", "(", ")", "{", "}">>,
     generatorMethod |-> <<"*", "f", "(", ")", "{", "}">>,
     methodReturningArrow |-> <<"f", "(", ")", "{", "return", "(", ")", "=>", "1", "}">>]
\* fn.toString() of a built-in function
NativeSource(name) == <<"function", name, "(", ")", "{", "[native code]", "}">>
toString(fn) ==
    IF fn.v \in DOMAIN FunctionForms THEN FunctionForms[fn.v]
    ELSE NativeSource(FunctionName(fn))

\* text.indexOf(token): 0 when the text does not have it
IndexOf(tokens, token) ==
    IF \E i \in DOMAIN tokens : tokens[i] = token
    THEN CHOOSE i \in DOMAIN tokens :
            tokens[i] = token /\ \A j \in 1..(i - 1) : tokens[j] # token
    ELSE 0

\* what a function does when called: the kind of function it is, its
\* parameters and its body (its name in the source text is not part of it)
Behaviour(fn) ==
    LET source == toString(fn)
        head == SubSeq(source, 1, IndexOf(source, "(") - 1)
    IN  IF source[1] = "("   \* an arrow function: the source starts with the parameters
        THEN [async |-> FALSE, generator |-> FALSE, arrow |-> TRUE, code |-> source]
        ELSE [async |-> IndexOf(head, "async") # 0,
              generator |-> IndexOf(head, "*") # 0,
              arrow |-> FALSE,
              code |-> SubSeq(source, IndexOf(source, "("), Len(source))]

----------------------------------------------------------------------------
(* serializeJS on a value graph.  The text is kept as the tree of its       *)
(* syntax: a "string" is a quoted JSON string with the content v, a         *)
(* "literal" a JSON number, true, false or null, an "array" the sequence of *)
(* its elements and an "object" the sequence of its <<name, value>>         *)
(* members, all of them nodes; the other forms are the expressions that     *)
(* serializeJS puts in the place of the placeholders.  The strings of the   *)
(* model have none of the characters < > / that serializeJS escapes.        *)

\* UID: the identifier generateUID() made when the module was loaded, and an
\* identifier that it did not make
UID == "5e1d"
OtherUID == "0000"

\* the tags of PLACE_HOLDER_REGEXP
Tags == {"F", "R", "D", "M", "S", "A", "U", "I", "B", "L"}

\* the content of the placeholder "@__" + tag + "-" + UID + "-" + index + "__@"
Placeholder(tag, uid, index) ==
    "@__" \o tag \o "-" \o uid \o "-" \o NumberString(index) \o "__@"

\* PLACE_HOLDER_REGEXP matches a quoted string of the text exactly when its
\* content is a placeholder of this UID: a quote inside a content is written
\* \" in the text, where the regexp takes the backslash and the callback
\* leaves the match as it is
PlaceholderMatch(content) ==
    {m \in Tags \X (0..(Len(Digits) - 1)) : content = Placeholder(m[1], UID, m[2])}

\* the tables of serializeJS: functions, regexps, dates, ..., by tag
NoTables == [tag \in Tags |-> <<>>]

\* the nodes of the text
Node(form, v) == [form |-> form, v |-> v]
ArrayNode(elements) == [form |-> "array", elements |-> elements]
ObjectNode(members) == [form |-> "object", members |-> members]
FunctionNode(source) == [form |-> "function", source |-> source]
\* form(argument), as in new Map([...])
CallNode(form, argument) == [form |-> form, argument |-> argument]
\* new RegExp(source, "flags")
RegExpNode(source, flags) == [form |-> "new RegExp", source |-> source, flags |-> flags]
\* the exception a serializeJS call ends with, in the place of its text
Throw(error) == [form |-> "throw", v |-> error]

\* no run of the codec
NoCodec ==
    [phase |-> "none", value |-> NoProp, text |-> Node("none", ""), result |-> NoProp]

\* the values JSON.stringify writes as a literal: NaN is written null
JSONLiteral(value) == IF value = NaN THEN "null" ELSE value.v

RECURSIVE stringify(_, _)
RECURSIVE stringifyArray(_, _, _, _)
RECURSIVE stringifyObject(_, _, _, _)

\* JSON.stringify(value, replacer) from the element i of an array on
stringifyArray(elements, i, nodes, tables) ==
    IF i > Len(elements)
    THEN [node |-> ArrayNode(nodes), tables |-> tables]
    ELSE LET r == stringify(elements[i], tables)
         IN  stringifyArray(elements, i + 1, Append(nodes, r.node), r.tables)

\* JSON.stringify(value, replacer) from the property i of an object on
stringifyObject(properties, i, nodes, tables) ==
    IF i > Len(properties)
    THEN [node |-> ObjectNode(nodes), tables |-> tables]
    ELSE LET r == stringify(properties[i][2], tables)
         IN  stringifyObject(properties, i + 1,
                 Append(nodes, <<Node("string", properties[i][1]), r.node>>),
                 r.tables)

\* JSON.stringify(value, replacer): the replacer returns a placeholder and
\* pushes the value on the table of its tag, or returns the value
stringify(value, tables) ==
    LET tag == replacer(value)
    IN  IF tag # "json"
        THEN [node |-> Node("string", Placeholder(tag, UID, Len(tables[tag]))),
              tables |-> [tables EXCEPT ![tag] = Append(@, value)]]
        ELSE CASE value.kind = "Array" ->
                     stringifyArray(value.elements, 1, <<>>, tables)
               [] value.kind = "Object" ->
                     stringifyObject(value.properties, 1, <<>>, tables)
               [] value.kind = "string" ->
                     [node |-> Node("string", value.v), tables |-> tables]
               [] OTHER ->
                     [node |-> Node("literal", JSONLiteral(value)), tables |-> tables]

\* the regular expressions of serializeFunc, on the tokens of a source text
IS_NATIVE_CODE_REGEXP(source) ==
    \E i \in DOMAIN source :
        /\ source[i] = "[native code]"
        /\ i > 1 /\ source[i - 1] = "{"
        /\ i < Len(source) /\ source[i + 1] = "}"
IS_PURE_FUNCTION(source) ==
    \E i, j \in DOMAIN source : i < j /\ source[i] = "function" /\ source[j] = "("
IS_ARROW_FUNCTION(source) == IndexOf(source, "=>") # 0
RESERVED_SYMBOLS == {"*", "async"}
NotReserved(token) == token \notin RESERVED_SYMBOLS

\* serializeFunc(fn) when IS_NATIVE_CODE_REGEXP.lastIndex is 0: the source
\* text it returns, or the TypeError it throws.  (A source without the
\* marker is returned whatever lastIndex is, and leaves it 0.)
serializeFuncSource(fn) ==
    LET serializedFn == toString(fn)
        argsStartsAt == IndexOf(serializedFn, "(")
        def == SubSeq(serializedFn, 1, argsStartsAt - 1)
        nonReservedSymbols == SelectSeq(def, NotReserved)
    IN  IF IS_NATIVE_CODE_REGEXP(serializedFn) THEN Throw("TypeError")
        ELSE IF IS_PURE_FUNCTION(serializedFn) THEN FunctionNode(serializedFn)
        ELSE IF IS_ARROW_FUNCTION(serializedFn) THEN FunctionNode(serializedFn)
        ELSE IF Len(nonReservedSymbols) > 0
        THEN \* a method, f() {}: the name gives way to the keyword
             FunctionNode(
                  (IF IndexOf(def, "async") # 0 THEN <<"async">> ELSE <<>>)
                  \o <<"function">>
                  \o (IF IndexOf(def, "*") # 0 THEN <<"*">> ELSE <<>>)
                  \o SubSeq(serializedFn, argsStartsAt, Len(serializedFn)))
        ELSE FunctionNode(serializedFn)

\* Array.from(map.entries()): the array of the [key, value] arrays
Entries(map) == Array([i \in DOMAIN map.entries |-> Array(map.entries[i])])

\* the properties of a sparse array that are not holes
IsProperty(property) == property[2] # NoProp

\* Object.assign({length: array.length}, array): the index properties come
\* first in the order of the properties of an object
WithLength(array) ==
    Object(SelectSeq([i \in DOMAIN array.elements |->
                        <<NumberString(i - 1), array.elements[i]>>],
                     IsProperty)
           \o <<<<"length", Number(Len(array.elements))>>>>)

\* a node with a part that is an exception is that exception
Thrown(nodes) == \E i \in DOMAIN nodes : nodes[i].form = "throw"
FirstThrown(nodes) == nodes[CHOOSE i \in DOMAIN nodes : nodes[i].form = "throw"]

RECURSIVE serialize(_)
RECURSIVE replacement(_, _, _)
RECURSIVE replacePlaceholders(_, _)

\* the callback of str.replace(PLACE_HOLDER_REGEXP, ...): what is written
\* in the place of the match with this tag and this index
replacement(tag, valueIndex, tables) ==
    LET present == valueIndex < Len(tables[tag])
        value == tables[tag][valueIndex + 1]
        \* new X(serializeJS(argument))
        New(form, argument) ==
            LET text == serialize(argument)
            IN  IF text.form = "throw" THEN text ELSE CallNode(form, text)
    IN  IF tag = "U" THEN Node("identifier", "undefined")
        ELSE IF tag = "I"
        THEN Node("identifier", IF present THEN value.v ELSE "undefined")
        ELSE IF tag = "B"
        THEN Node("BigInt", IF present THEN value.v ELSE "undefined")
        ELSE IF ~present
        THEN Throw("TypeError")   \* the table has no such value: undefined.toString()
        ELSE CASE tag = "D" -> Node("new Date", value.v)
               [] tag = "R" ->
                     RegExpNode(serialize(String(value.source)), value.flags)
               [] tag = "M" -> New("new Map", Entries(value))
               [] tag = "S" -> New("new Set", Array(value.elements))
               [] tag = "A" -> New("Array.prototype.slice.call", WithLength(value))
               [] tag = "L" -> New("new URL", String(value.v))
               [] tag = "F" -> serializeFuncSource(value)

\* str.replace(PLACE_HOLDER_REGEXP, ...) on the text `node`
replacePlaceholders(node, tables) ==
    CASE node.form = "string" ->
            LET m == PlaceholderMatch(node.v)
            IN  IF m = {} THEN node
                ELSE LET match == CHOOSE x \in m : TRUE
                     IN  replacement(match[1], match[2], tables)
      [] node.form = "array" ->
            LET nodes == [i \in DOMAIN node.elements |->
                            replacePlaceholders(node.elements[i], tables)]
            IN  IF Thrown(nodes) THEN FirstThrown(nodes) ELSE ArrayNode(nodes)
      [] node.form = "object" ->
            LET names == [i \in DOMAIN node.members |->
                            replacePlaceholders(node.members[i][1], tables)]
                nodes == [i \in DOMAIN node.members |->
                            replacePlaceholders(node.members[i][2], tables)]
            IN  IF Thrown(names) THEN FirstThrown(names)
                ELSE IF Thrown(nodes) THEN FirstThrown(nodes)
                ELSE ObjectNode([i \in DOMAIN node.members |-> <<names[i], nodes[i]>>])
      [] OTHER -> node

\* serializeJS(obj) with the default options: the text, or the exception
serialize(obj) ==
    IF obj.kind = "undefined"
    THEN Node("identifier", "undefined")
    ELSE LET str == stringify(obj, NoTables)
         IN  IF \A tag \in Tags : Len(str.tables[tag]) = 0
             THEN str.node
             ELSE replacePlaceholders(str.node, str.tables)

\* the exception an evaluation ends with, in the place of its value
Error(name) == [kind |-> "error", v |-> name]
Failed(values) == \E i \in DOMAIN values : values[i].kind = "error"
FirstFailed(values) == values[CHOOSE i \in DOMAIN values : values[i].kind = "error"]

\* a source text that is an expression: a function expression or an arrow
\* function.  The source of a method, f() {}, is not one, and neither is the
\* source of a built-in function.
IsFunctionExpression(source) ==
    /\ ~IS_NATIVE_CODE_REGEXP(source)
    /\ \/ source[1] = "function"
       \/ source[1] = "async" /\ source[2] = "function"
       \/ source[1] = "("

\* the function that evaluating a source text makes
FunctionOfSource(source) ==
    Function(CHOOSE form \in DOMAIN FunctionForms : FunctionForms[form] = source)

RECURSIVE eval(_)
\* eval("(" + text + ")") of PersistentStore.loadFromString, on a text of
\* serializeJS: the value, or the exception
eval(node) ==
    CASE node.form = "literal" ->
            IF node.v = "null" THEN Null
            ELSE IF node.v \in {"true", "false"}
                 THEN [kind |-> "boolean", v |-> node.v]
                 ELSE [kind |-> "number", v |-> node.v]
      [] node.form = "string" -> String(node.v)
      [] node.form = "identifier" ->
            IF node.v = "undefined" THEN Undefined
            ELSE [kind |-> "number", v |-> node.v]
      [] node.form = "array" ->
            LET values == [i \in DOMAIN node.elements |-> eval(node.elements[i])]
            IN  IF Failed(values) THEN FirstFailed(values) ELSE Array(values)
      [] node.form = "object" ->
            LET values == [i \in DOMAIN node.members |-> eval(node.members[i][2])]
            IN  IF \E i \in DOMAIN node.members : node.members[i][1].form # "string"
                THEN Error("SyntaxError")   \* a member name that is not a string
                ELSE IF Failed(values) THEN FirstFailed(values)
                ELSE Object([i \in DOMAIN node.members |->
                               <<node.members[i][1].v, values[i]>>])
      [] node.form = "new Date" -> NewDate(node.v)
      [] node.form = "new RegExp" -> NewRegExp(eval(node.source).v, node.flags)
      [] node.form = "new Map" ->
            LET entries == eval(node.argument)
            IN  IF entries.kind = "error" THEN entries
                ELSE NewMap([i \in DOMAIN entries.elements |->
                               entries.elements[i].elements])
      [] node.form = "new Set" ->
            LET elements == eval(node.argument)
            IN  IF elements.kind = "error" THEN elements
                ELSE NewSet(elements.elements)
      [] node.form = "Array.prototype.slice.call" ->
            \* slice copies the index properties below length that the
            \* object has, and leaves a hole for one it does not have
            LET obj == eval(node.argument)
            IN  IF obj.kind = "error" THEN obj
                ELSE Array([i \in 1..ToNumber(Property(obj, "length")) |->
                              Property(obj, NumberString(i - 1))])
      [] node.form = "BigInt" ->
            IF node.v = "undefined" THEN Error("SyntaxError") ELSE BigInt(node.v)
      [] node.form = "new URL" -> NewURL(eval(node.argument).v)
      [] node.form = "function" ->
            IF IsFunctionExpression(node.source) THEN FunctionOfSource(node.source)
            ELSE Error("SyntaxError")

RECURSIVE Equivalent(_, _)
\* a and b are structurally equivalent: the same kind of value with
\* equivalent parts, and for functions the same behaviour
Equivalent(a, b) ==
    /\ a.kind = b.kind
    /\ CASE a.kind = "function" -> Behaviour(a) = Behaviour(b)
         [] a.kind \in {"Array", "Set"} ->
               /\ Len(a.elements) = Len(b.elements)
               /\ \A i \in DOMAIN a.elements :
                     Equivalent(a.elements[i], b.elements[i])
         [] a.kind = "Object" ->
               /\ Len(a.properties) = Len(b.properties)
               /\ \A i \in DOMAIN a.properties :
                     /\ a.properties[i][1] = b.properties[i][1]
                     /\ Equivalent(a.properties[i][2], b.properties[i][2])
         [] a.kind = "Map" ->
               /\ Len(a.entries) = Len(b.entries)
               /\ \A i \in DOMAIN a.entries :
                     /\ Equivalent(a.entries[i][1], b.entries[i][1])
                     /\ Equivalent(a.entries[i][2], b.entries[i][2])
         [] OTHER -> a = b

----------------------------------------------------------------------------
(* The plugin settings and the host's data file. *)

DEFAULT_LAZY_PERSISTENCE == FALSE
DEFAULT_SETTINGS ==
    [lazyPersistence |-> DEFAULT_LAZY_PERSISTENCE, persistedData |-> EmptyText]

\* PKVSPlugin.eagerPersistenceEnabled()
eagerPersistenceEnabled(s) == ~s.lazyPersistence

\* no write of the data file is in progress
NoWrite == [active |-> FALSE, owner |-> "", settings |-> DEFAULT_SETTINGS]

\* PKVSPlugin.saveSettings(): saveData(this.settings) hands the host the
\* settings object s; the write completes, or fails, later.  No call
\* changes that object while the write is in progress (loadSettings makes a
\* new one), so what the host writes is s as it is at that moment.
saveSettings(owner, s) == [active |-> TRUE, owner |-> owner, settings |-> s]

\* the texts a previous session can have left in the data file: "{}", or
\* one property of a name the script uses
InitTexts(used) ==
    {EmptyText} \cup
    {[EmptyText EXCEPT ![key] = "1"] : key \in (used \cap StringKeys) \ {"__proto__"}}

----------------------------------------------------------------------------
(* The facade calls.  A caller awaits each call before the next one         *)
(* (spec section 5), so a call starts only when none is running; and the    *)
(* model lets one write of the data file be in progress at a time.          *)

NoCall ==
    [op |-> "", key |-> "", value |-> NoProp, result |-> NoProp,
     status |-> "none", error |-> "", writes |-> 0]

Idle == call.status # "running" /\ ~inflight.active

\* the record of a call that has returned `result`
Returned(op, key, value, result) ==
    [op |-> op, key |-> key, value |-> value, result |-> result,
     status |-> "returned", error |-> "", writes |-> 0]

\* PersistentStore.loadMember(key)
loadMember(d, key) == Get(d, key)

\* PersistentStore.existsMember(key): this.data.hasOwnProperty(key) calls
\* whatever the property hasOwnProperty of data is
existsMember(d, key) ==
    LET h == Get(d, "hasOwnProperty")
    IN  CASE h = NativeHasOwnProperty ->
                [threw |-> FALSE,
                 value |-> IF d.own[key] # NoProp THEN True ELSE False]
          [] h = NativeToString ->
                [threw |-> FALSE, value |-> ObjectString]
          [] OTHER -> \* not a function, or one that rejects this receiver
                [threw |-> TRUE, value |-> NoProp]

\* PersistentStore.storeMember(key, value)
storeMember(d, key, value) ==
    [oldValue |-> Get(d, key), data |-> Set(d, key, value)]

\* PersistentStore.deleteMember(key)
deleteMember(d, key) ==
    [oldValue |-> Get(d, key), data |-> Delete(d, key)]

\* persistIfEnabled without the test of the override
persistIfEnabled_IgnoresOverride(override, s) == eagerPersistenceEnabled(s)

\* the test of PersistentStoreGlobal.persistIfEnabled():
\* !this.lazyPersistenceOverride && this.plugin.eagerPersistenceEnabled()
persistIfEnabled(override, s) ==
    override \in {"undefined", "false"} /\ eagerPersistenceEnabled(s)

\* storeData without the await of saveSettings: the call returns while the
\* write is in progress
storeData_NoAwait(d, c) ==
    LET r == serializeJS(d, lastIndex)
    IN  /\ lastIndex' = r.lastIndex
        /\ IF r.threw
           THEN /\ call' = [c EXCEPT !.status = "threw", !.error = "TypeError"]
                /\ UNCHANGED <<settings, inflight>>
           ELSE /\ settings' = [settings EXCEPT !.persistedData = r.text]
                /\ inflight' = saveSettings("settings", settings')
                /\ call' = [c EXCEPT !.status = "returned", !.writes = 1]

\* PersistentStore.storeData() for the call `c`, on the mapping d:
\* storeToString() may throw, before the assignment to
\* settings.persistedData; else the settings are handed to the host
storeData(d, c) ==
    LET r == serializeJS(d, lastIndex)
    IN  /\ lastIndex' = r.lastIndex
        /\ IF r.threw
           THEN /\ call' = [c EXCEPT !.status = "threw", !.error = "TypeError"]
                /\ UNCHANGED <<settings, inflight>>
           ELSE /\ settings' = [settings EXCEPT !.persistedData = r.text]
                /\ inflight' = saveSettings("call", settings')
                /\ call' = [c EXCEPT !.status = "running", !.writes = 1]

\* load with the persistIfEnabled of store and delete
load_Persists(key) ==
    /\ Idle
    /\ LET c == Returned("load", key, NoProp, loadMember(data, key))
       IN  IF persistIfEnabled(lazyPersistenceOverride, settings)
           THEN storeData(data, c)
           ELSE /\ call' = c
                /\ UNCHANGED <<settings, lastIndex, inflight>>
    /\ UNCHANGED <<data, disk, lazyPersistenceOverride, failures, keysUsed, codec, startup>>

\* PersistentStoreGlobal.load(key)
load(key) ==
    /\ Idle
    /\ call' = Returned("load", key, NoProp, loadMember(data, key))
    /\ UNCHANGED <<data, settings, disk, lazyPersistenceOverride, lastIndex,
                   inflight, failures, keysUsed, codec, startup>>

\* PersistentStoreGlobal.exists(key)
exists(key) ==
    /\ Idle
    /\ LET e == existsMember(data, key)
       IN  call' = IF e.threw
                   THEN [Returned("exists", key, NoProp, NoProp)
                            EXCEPT !.status = "threw", !.error = "TypeError"]
                   ELSE Returned("exists", key, NoProp, e.value)
    /\ UNCHANGED <<data, settings, disk, lazyPersistenceOverride, lastIndex,
                   inflight, failures, keysUsed, codec, startup>>

\* PersistentStoreGlobal.store(key, value)
store(key, value) ==
    /\ Idle
    /\ LET m == storeMember(data, key, value)
           c == Returned("store", key, value, m.oldValue)
       IN  /\ data' = m.data
           /\ IF persistIfEnabled(lazyPersistenceOverride, settings)
              THEN storeData(m.data, c)
              ELSE /\ call' = c
                   /\ UNCHANGED <<settings, lastIndex, inflight>>
    /\ UNCHANGED <<disk, lazyPersistenceOverride, failures, keysUsed, codec, startup>>

\* PersistentStoreGlobal.delete(key)
delete(key) ==
    /\ Idle
    /\ LET m == deleteMember(data, key)
           c == Returned("delete", key, NoProp, m.oldValue)
       IN  /\ data' = m.data
           /\ IF persistIfEnabled(lazyPersistenceOverride, settings)
              THEN storeData(m.data, c)
              ELSE /\ call' = c
                   /\ UNCHANGED <<settings, lastIndex, inflight>>
    /\ UNCHANGED <<disk, lazyPersistenceOverride, failures, keysUsed, codec, startup>>

\* PersistentStoreGlobal.persist()
persist ==
    /\ Idle
    /\ storeData(data, Returned("persist", "", NoProp, Undefined))
    /\ UNCHANGED <<data, disk, lazyPersistenceOverride, failures, keysUsed, codec, startup>>

\* PersistentStoreGlobal.setLazyPersistance()
setLazyPersistance ==
    /\ Idle
    /\ lazyPersistenceOverride' = "true"
    /\ call' = Returned("setLazyPersistance", "", NoProp, Undefined)
    /\ UNCHANGED <<data, settings, disk, lastIndex, inflight, failures, keysUsed, codec, startup>>

\* setEagerPersistence that sets the plugin's setting as well
setEagerPersistence_SetsSetting ==
    /\ Idle
    /\ lazyPersistenceOverride' = "false"
    /\ settings' = [settings EXCEPT !.lazyPersistence = FALSE]
    /\ call' = Returned("setEagerPersistence", "", NoProp, Undefined)
    /\ UNCHANGED <<data, disk, lastIndex, inflight, failures, keysUsed, codec, startup>>

\* PersistentStoreGlobal.setEagerPersistence()
setEagerPersistence ==
    /\ Idle
    /\ lazyPersistenceOverride' = "false"
    /\ call' = Returned("setEagerPersistence", "", NoProp, Undefined)
    /\ UNCHANGED <<data, settings, disk, lastIndex, inflight, failures, keysUsed, codec, startup>>

\* PersistentStoreGlobal.disablePersistenceOverride()
disablePersistenceOverride ==
    /\ Idle
    /\ lazyPersistenceOverride' = "undefined"
    /\ call' = Returned("disablePersistenceOverride", "", NoProp, Undefined)
    /\ UNCHANGED <<data, settings, disk, lastIndex, inflight, failures, keysUsed, codec, startup>>

\* the "Lazy Persistence" toggle of the settings tab
\* (PKVSSettingsTab._createToggle): it sets the setting and saves the
\* settings, without awaiting the write
toggleLazyPersistence ==
    /\ Idle
    /\ settings' = [settings EXCEPT !.lazyPersistence = ~settings.lazyPersistence]
    /\ inflight' = saveSettings("settings", settings')
    /\ UNCHANGED <<data, disk, lazyPersistenceOverride, lastIndex, call, failures,
                   keysUsed, codec, startup>>

\* the host completes the write: the data file holds what saveData was
\* given, and the call awaiting it returns
writeCompletes ==
    /\ inflight.active
    /\ disk' = inflight.settings
    /\ inflight' = NoWrite
    /\ call' = IF inflight.owner = "call"
               THEN [call EXCEPT !.status = "returned"] ELSE call
    /\ UNCHANGED <<data, settings, lazyPersistenceOverride, lastIndex, failures,
                   keysUsed, codec, startup>>

\* the host's write fails, and saveSettings gives the settings to the host
\* once more instead of rejecting
writeFails_Retries ==
    /\ inflight.active
    /\ failures < MaxWriteFailures
    /\ failures' = failures + 1
    /\ inflight' = inflight
    /\ call' = IF inflight.owner = "call" THEN [call EXCEPT !.writes = 2] ELSE call
    /\ UNCHANGED <<data, settings, disk, lazyPersistenceOverride, lastIndex,
                   keysUsed, codec, startup>>

\* the host's write fails: the data file is unchanged, and the rejection
\* reaches the call awaiting it
writeFails ==
    /\ inflight.active
    /\ failures < MaxWriteFailures
    /\ failures' = failures + 1
    /\ inflight' = NoWrite
    /\ call' = IF inflight.owner = "call"
               THEN [call EXCEPT !.status = "threw",
                                 !.error = "HostPersistenceFailure"]
               ELSE call
    /\ UNCHANGED <<data, settings, disk, lazyPersistenceOverride, lastIndex,
                   keysUsed, codec, startup>>

\* the calling scripts: each uses one property key
KeySets == {{key} : key \in Keys}

----------------------------------------------------------------------------
(* The specification: the plugin after onload has loaded the settings and  *)
(* the persisted data of a previous session.                                *)

Init ==
    /\ keysUsed \in KeySets
    /\ disk \in [lazyPersistence : BOOLEAN, persistedData : InitTexts(keysUsed)]
    /\ settings = disk
    /\ data = loadFromString(settings.persistedData).value
    /\ lazyPersistenceOverride = "undefined"
    /\ lastIndex = 0
    /\ inflight = NoWrite
    /\ call = NoCall
    /\ failures = 0
    /\ codec = NoCodec
    /\ onloadPc = "done"
    /\ loadDataPc = "done"

Next ==
    \/ \E key \in keysUsed : load(key)
    \/ \E key \in keysUsed : exists(key)
    \/ \E key \in keysUsed, value \in StoreValues : store(key, value)
    \/ \E key \in keysUsed : delete(key)
    \/ persist
    \/ setLazyPersistance
    \/ setEagerPersistence
    \/ disablePersistenceOverride
    \/ toggleLazyPersistence
    \/ writeCompletes
    \/ writeFails

Spec == Init /\ [][Next]_vars

----------------------------------------------------------------------------
(* The codec alone: serializeJS applied to a value graph, and eval applied  *)
(* to the text it returned.                                                 *)

\* the values without parts
Atoms ==
    {String("a"), String(""), Number(0), Number(1), NaN, Infinity, NegativeInfinity,
     True, False, Null, Undefined, NewDate("2020-01-01T00:00:00.000Z"),
     NewRegExp("a+", "g"), BigInt("0"), BigInt("7"), NewURL("mailto:a@b")}
    \cup {Function(form) : form \in DOMAIN FunctionForms}

\* the strings whose content is a placeholder token, of this UID and of
\* another one
TokenStrings ==
    {String(Placeholder(tag, uid, index)) :
        tag \in Tags, uid \in {UID, OtherUID}, index \in {0, 1}}

\* the values given to the codec: the atoms and the token strings, alone, as
\* the property of an object, in twos in an array, in a Map and in a Set,
\* and the sparse arrays [1, , 3] and [undefined, , 1]
CodecValues ==
    LET parts == Atoms \cup TokenStrings
    IN  parts
        \cup {Object(<<<<"k", a>>>>) : a \in parts}
        \cup {Array(<<a, b>>) : a \in parts, b \in parts}
        \cup {NewMap(<<<<String("a"), a>>>>) : a \in parts}
        \cup {NewSet(<<a>>) : a \in parts}
        \cup {Array(<<Number(1), NoProp, Number(3)>>),
              Array(<<Undefined, NoProp, Number(1)>>)}

\* storeToString(): serializeJS of the value
encode ==
    /\ codec.phase = "value"
    /\ LET text == serialize(codec.value)
       IN  codec' = [codec EXCEPT
                        !.phase = IF text.form = "throw" THEN "encode threw" ELSE "text",
                        !.text = text]
    /\ UNCHANGED <<data, settings, disk, lazyPersistenceOverride, lastIndex,
                   inflight, call, failures, keysUsed, startup>>

\* loadFromString(text): eval of the text
decode ==
    /\ codec.phase = "text"
    /\ LET result == eval(codec.text)
       IN  codec' = [codec EXCEPT
                        !.phase = IF result.kind = "error" THEN "decode threw"
                                  ELSE "result",
                        !.result = result]
    /\ UNCHANGED <<data, settings, disk, lazyPersistenceOverride, lastIndex,
                   inflight, call, failures, keysUsed, startup>>

CodecInit ==
    /\ codec \in {[NoCodec EXCEPT !.phase = "value", !.value = v] : v \in CodecValues}
    /\ keysUsed = {}
    /\ disk = DEFAULT_SETTINGS
    /\ settings = DEFAULT_SETTINGS
    /\ data = loadFromString(settings.persistedData).value
    /\ lazyPersistenceOverride = "undefined"
    /\ lastIndex = 0
    /\ inflight = NoWrite
    /\ call = NoCall
    /\ failures = 0
    /\ onloadPc = "done"
    /\ loadDataPc = "done"

CodecNext == encode \/ decode

CodecSpec == CodecInit /\ [][CodecNext]_vars

----------------------------------------------------------------------------
(* The startup: the plugin from its construction on, with PKVSPlugin.onload *)
(* and the loadData() it starts, and the calls scripts make as soon as      *)
(* window.pkvs is there.                                                    *)

\* window.pkvs is assigned: scripts can call the facade
windowPkvs == onloadPc = "done"

\* PKVSPlugin.loadSettings() on the content of the data file:
\* Object.assign({}, DEFAULT_SETTINGS, await this.loadData())
loadSettings(file) ==
    [lazyPersistence |-> file.lazyPersistence, persistedData |-> file.persistedData]

\* the texts eval cannot parse that a data file can hold: a property with
\* the source of a built-in function, as serializeJS writes it
MalformedTexts(used) ==
    {[EmptyText EXCEPT ![key] = FunctionSource(NativeToString)] :
        key \in used \cap StringKeys}

\* onload, line 94: await this.loadSettings()
onloadLoadSettings ==
    /\ onloadPc = "loadSettings"
    /\ settings' = loadSettings(disk)
    /\ onloadPc' = "loadData"
    /\ UNCHANGED <<data, disk, lazyPersistenceOverride, lastIndex, inflight, call,
                   failures, keysUsed, codec, loadDataPc>>

\* onload, lines 95-141, which run without a suspension:
\* this.dataStore.loadData() runs up to its await of loadSettings() and
\* onload does not await it; then window.pkvs = this.storeInterface
onloadRegisters ==
    /\ onloadPc = "loadData"
    /\ loadDataPc = "idle"
    /\ loadDataPc' = "loadSettings"
    /\ onloadPc' = "done"
    /\ UNCHANGED <<data, settings, disk, lazyPersistenceOverride, lastIndex, inflight,
                   call, failures, keysUsed, codec>>

\* PersistentStore.loadData() after its await: loadSettings() has read the
\* data file, and loadFromString makes the mapping of the text, or throws
loadData ==
    /\ loadDataPc = "loadSettings"
    /\ settings' = loadSettings(disk)
    /\ LET r == loadFromString(settings'.persistedData)
       IN  IF r.threw
           THEN data' = data /\ loadDataPc' = "threw"
           ELSE data' = r.value /\ loadDataPc' = "done"
    /\ UNCHANGED <<disk, lazyPersistenceOverride, lastIndex, inflight, call, failures,
                   keysUsed, codec, onloadPc>>

\* the state after the constructor of PKVSPlugin, with the data file a
\* previous session has left
StartupInit ==
    /\ keysUsed \in KeySets
    /\ disk \in [lazyPersistence : BOOLEAN,
                 persistedData : InitTexts(keysUsed) \cup MalformedTexts(keysUsed)]
    /\ settings = DEFAULT_SETTINGS
    /\ data = loadFromString(settings.persistedData).value
    /\ lazyPersistenceOverride = "undefined"
    /\ lastIndex = 0
    /\ inflight = NoWrite
    /\ call = NoCall
    /\ failures = 0
    /\ codec = NoCodec
    /\ onloadPc = "loadSettings"
    /\ loadDataPc = "idle"

StartupNext ==
    \/ onloadLoadSettings
    \/ onloadRegisters
    \/ loadData
    \/ \E key \in keysUsed : windowPkvs /\ load(key)
    \/ \E key \in keysUsed : windowPkvs /\ exists(key)
    \/ \E key \in keysUsed, value \in StoreValues : windowPkvs /\ store(key, value)
    \/ \E key \in keysUsed : windowPkvs /\ delete(key)
    \/ windowPkvs /\ persist
    \/ writeCompletes
    \/ writeFails

StartupSpec == StartupInit /\ [][StartupNext]_vars

----------------------------------------------------------------------------
(* The flushes of a mapping of two keys: the store with a script that uses  *)
(* two property names, the override calls that make a store lazy or eager,  *)
(* and the flush of the shutdown.                                           *)

\* the handler of the quit event, and onunload: await this.dataStore.storeData()
quit ==
    /\ Idle
    /\ storeData(data, Returned("quit", "", NoProp, Undefined))
    /\ UNCHANGED <<data, disk, lazyPersistenceOverride, failures, keysUsed, codec, startup>>

\* the two property names of the script, and the values it stores
FlushKeys == {"k", "constructor"}
FlushValues == {Num1, NativeToString}

\* the plugin after onload, on a first run
FlushInit ==
    /\ keysUsed = FlushKeys
    /\ disk = DEFAULT_SETTINGS
    /\ settings = disk
    /\ data = loadFromString(settings.persistedData).value
    /\ lazyPersistenceOverride = "undefined"
    /\ lastIndex = 0
    /\ inflight = NoWrite
    /\ call = NoCall
    /\ failures = 0
    /\ codec = NoCodec
    /\ onloadPc = "done"
    /\ loadDataPc = "done"

FlushNext ==
    \/ \E key \in keysUsed, value \in FlushValues : store(key, value)
    \/ \E key \in keysUsed : delete(key)
    \/ persist
    \/ quit
    \/ setLazyPersistance
    \/ disablePersistenceOverride
    \/ writeCompletes

FlushSpec == FlushInit /\ [][FlushNext]_vars

----------------------------------------------------------------------------
(* The policy states of the facade, and the steps that are facade calls.   *)

FollowSetting == lazyPersistenceOverride = "undefined"
ForceLazy == lazyPersistenceOverride = "true"
ForceEager == lazyPersistenceOverride = "false"

\* this step is the start of a call of `op`
NewCall(op) == Idle /\ call' # call /\ call'.op = op

\* this step is the start of a store or of a delete
NewMutation == NewCall("store") \/ NewCall("delete")

\* this step is the return of the running call to its caller
CallReturns == call.status = "running" /\ call'.status = "returned"

\* the call c has called storeData (the flush): it has handed the settings
\* to the host, or serializeJS has thrown
FlushAttempted(c) == c.writes = 1 \/ (c.status = "threw" /\ c.error = "TypeError")

----------------------------------------------------------------------------
(* C1: in ForceEager, every store and every delete that does not fail      *)
(* triggers exactly one write of the settings, whatever the lazyPersistence *)
(* setting is.                                                              *)
C1_ForceEagerWritesOnce ==
    [][(ForceEager /\ NewMutation /\ call'.status # "threw")
          => (call'.writes = 1 /\ inflight'.active)]_vars

(* C2: in ForceLazy, no store and no delete triggers a write, whatever the  *)
(* lazyPersistence setting is: the call returns at once, and the settings,  *)
(* the persisted text in them and the content of the data file are          *)
(* unchanged.                                                               *)
C2_ForceLazyNeverWrites ==
    [][(ForceLazy /\ NewMutation)
          => /\ call'.writes = 0
             /\ call'.status = "returned"
             /\ ~inflight'.active
             /\ settings' = settings
             /\ disk' = disk]_vars

\* a store has returned without a write in ForceLazy while the setting is eager
C2_Witness ==
    /\ ForceLazy
    /\ ~settings.lazyPersistence
    /\ call.op = "store"
    /\ call.status = "returned"
    /\ call.writes = 0
    /\ loadMember(data, call.key) = call.value

(* C3: the facade starts in FollowSetting, and the default setting is       *)
(* eager; in FollowSetting a store or a delete flushes (calls storeData) if *)
(* and only if the lazyPersistence setting is false when it is called; and  *)
(* a store or delete that has flushed returns to its caller only when the   *)
(* host has completed the write: the data file then holds the settings with *)
(* the text of that flush.                                                  *)
C3_FollowSettingFlushes ==
    /\ FollowSetting
    /\ eagerPersistenceEnabled(DEFAULT_SETTINGS)
    /\ [][/\ (FollowSetting /\ NewMutation)
               => (FlushAttempted(call') <=> ~settings.lazyPersistence)
          /\ (NewMutation /\ call'.writes = 1)
               => /\ call'.status = "running"
                  /\ inflight'.active
                  /\ ~serializeJS(data', lastIndex).threw
                  /\ settings'.persistedData = serializeJS(data', lastIndex).text
          /\ (CallReturns /\ call.op \in {"store", "delete"})
               => /\ call.writes = 1
                  /\ disk' = settings
                  /\ ~inflight'.active]_vars

\* a store in FollowSetting with the eager setting has returned after its write
C3_Witness ==
    /\ FollowSetting
    /\ ~settings.lazyPersistence
    /\ call.op = "store"
    /\ call.status = "returned"
    /\ call.writes = 1
    /\ disk = settings
    /\ call.key \in StringKeys
    /\ disk.persistedData[call.key] = JSONStringify(call.value)

(* C4: persist() triggers exactly one write of the settings in every policy *)
(* state, and returns only when that write has completed.                   *)
C4_PersistWritesOnce ==
    [][/\ NewCall("persist")
            => (call'.writes = 1 /\ call'.status = "running" /\ inflight'.active)
       /\ (CallReturns /\ call.op = "persist")
            => (call.writes = 1 /\ disk' = settings /\ ~inflight'.active)]_vars

\* the mapping holds numbers and null only, and has the prototype of an
\* object literal
PlainMapping(d) ==
    /\ d.proto = "Object.prototype"
    /\ \A key \in Keys : d.own[key].kind \in {"none", "number", "null"}

\* a store initialised from `text` answers load and exists as the mapping d
SameAnswers(text, d) ==
    LET r == loadFromString(text)
    IN  /\ ~r.threw
        /\ \A key \in Keys :
              /\ loadMember(r.value, key) = loadMember(d, key)
              /\ existsMember(r.value, key) = existsMember(d, key)

(* C5: when persist() has returned, the text in the data file decodes to a  *)
(* mapping with the keys (strings or symbols) and the values of the         *)
(* in-memory mapping: a store initialised from it answers load and exists   *)
(* for every key as the in-memory store does.  Stated for the mappings of   *)
(* numbers and null.                                                        *)
C5_PersistRoundTrip ==
    [][(CallReturns /\ call.op = "persist" /\ PlainMapping(data'))
          => SameAnswers(disk'.persistedData, data')]_vars

\* the answers of exists
ExistsTrue == [threw |-> FALSE, value |-> True]
ExistsFalse == [threw |-> FALSE, value |-> False]

\* this step is the start of a call of `op` on the key of the last call
SameKeyCall(op) == NewCall(op) /\ call'.key = call.key

(* C6: store(k, v) overwrites, and load(k) after it returns v; the next     *)
(* store(k, _) or delete(k) returns v; after delete(k) has returned,        *)
(* exists(k) is false, load(k) is undefined, and a store(k, _) or a         *)
(* delete(k) returns undefined.                                             *)
C6_StoreSemantics ==
    [][/\ NewCall("store") => loadMember(data', call'.key) = call'.value
       /\ \A op \in {"load", "store", "delete"} :
             (call.op = "store" /\ call.status = "returned" /\ SameKeyCall(op))
                => call'.result = call.value
       /\ \A op \in {"load", "store", "delete"} :
             (call.op = "delete" /\ call.status = "returned" /\ SameKeyCall(op))
                => call'.result = Undefined
       /\ (call.op = "delete" /\ call.status = "returned" /\ SameKeyCall("exists"))
             => (call'.status = "returned" /\ call'.result = False)
       /\ NewCall("delete") => existsMember(data', call'.key) = ExistsFalse]_vars

(* C7: for every key k that the mapping does not hold (exists(k) is false): *)
(* load(k) returns undefined, store(k, v) returns undefined, and delete(k)  *)
(* returns undefined and changes nothing.                                   *)
C7_AbsentKeys ==
    [][\A op \in {"load", "store", "delete"} :
          (NewCall(op) /\ existsMember(data, call'.key) = ExistsFalse)
             => /\ call'.result = Undefined
                /\ (op = "delete" => data' = data)]_vars

(* C8: load(key) and exists(key) are pure reads in every policy state: they *)
(* trigger no write, and leave the mapping, the settings with the persisted *)
(* text and the lazyPersistence setting, the data file and the override     *)
(* unchanged.                                                               *)
C8_PureReads ==
    [][(NewCall("load") \/ NewCall("exists"))
          => /\ call'.writes = 0
             /\ call'.status \in {"returned", "threw"}
             /\ UNCHANGED <<data, settings, disk, lazyPersistenceOverride,
                            inflight, lastIndex>>]_vars

\* a load has returned a stored value in ForceEager, with the eager setting,
\* while the mapping is not what the data file holds
C8_Witness ==
    /\ call.op = "load"
    /\ call.status = "returned"
    /\ call.result = Num1
    /\ ForceEager
    /\ ~settings.lazyPersistence
    /\ ~SameAnswers(disk.persistedData, data)

(* C9: store(k, f) of a built-in function f fails with the TypeError of     *)
(* serializeFunc in every policy state, and leaves the mapping, the         *)
(* settings with the persisted text and the data file as they were.         *)
C9_NativeFunctionRejected ==
    [][(NewCall("store") /\ call'.value.kind = "function")
          => /\ call'.status = "threw"
             /\ call'.error = "TypeError"
             /\ UNCHANGED <<data, settings, disk, inflight>>]_vars

\* the override calls
OverrideCalls ==
    {"setLazyPersistance", "setEagerPersistence", "disablePersistenceOverride"}

(* C10: setLazyPersistance moves the facade to ForceLazy,                   *)
(* setEagerPersistence to ForceEager and disablePersistenceOverride to      *)
(* FollowSetting, from any state and at once; they change neither the       *)
(* settings (the lazyPersistence setting, the persisted text), nor the      *)
(* mapping, nor the data file, and trigger no write; and no other step      *)
(* changes the override.                                                    *)
C10_OverrideControls ==
    [][/\ NewCall("setLazyPersistance") => ForceLazy'
       /\ NewCall("setEagerPersistence") => ForceEager'
       /\ NewCall("disablePersistenceOverride") => FollowSetting'
       /\ (\E op \in OverrideCalls : NewCall(op))
             => /\ call'.status = "returned"
                /\ call'.writes = 0
                /\ UNCHANGED <<data, settings, disk, inflight>>
       /\ lazyPersistenceOverride' # lazyPersistenceOverride
             => \E op \in OverrideCalls : NewCall(op)]_vars

\* setEagerPersistence has moved the facade to ForceEager: the setting is
\* still lazy, in the settings and in the data file, and the mapping is still
\* not what the data file holds
C10_Witness ==
    /\ call.op = "setEagerPersistence"
    /\ ForceEager
    /\ settings.lazyPersistence
    /\ disk.lazyPersistence
    /\ ~SameAnswers(disk.persistedData, data)

RECURSIVE Strings(_)
\* the contents of the strings of a value graph
Strings(value) ==
    CASE value.kind = "string" -> {value.v}
      [] value.kind \in {"Array", "Set"} ->
            UNION {Strings(value.elements[i]) : i \in DOMAIN value.elements}
      [] value.kind = "Object" ->
            UNION {Strings(value.properties[i][2]) : i \in DOMAIN value.properties}
      [] value.kind = "Map" ->
            UNION {Strings(value.entries[i][1]) \cup Strings(value.entries[i][2]) :
                      i \in DOMAIN value.entries}
      [] OTHER -> {}

\* no string of the value graph is a placeholder token of this UID
NoPlaceholderString(value) == \A content \in Strings(value) : PlaceholderMatch(content) = {}

(* C11: for every value v built from strings, numbers with NaN and the      *)
(* infinities, booleans, null, undefined, Dates, RegExps, Objects, dense    *)
(* and sparse Arrays, Maps, Sets, BigInts, URLs and functions written in    *)
(* JavaScript, serializeJS(v) returns a text, eval of the text returns a    *)
(* value, and that value is structurally equivalent to v: a sparse array    *)
(* keeps its length and its holes.  Stated for the values none of whose     *)
(* strings is a placeholder token of this UID.                              *)
C11_RoundTrip ==
    (codec.phase # "value" /\ NoPlaceholderString(codec.value))
        => /\ codec.phase \in {"text", "result"}
           /\ codec.phase = "result" => Equivalent(codec.result, codec.value)

RECURSIVE TextStrings(_)
\* the contents of the quoted strings of a text that are values: elements,
\* members, arguments
TextStrings(node) ==
    CASE node.form = "string" -> {node.v}
      [] node.form = "array" ->
            UNION {TextStrings(node.elements[i]) : i \in DOMAIN node.elements}
      [] node.form = "object" ->
            UNION {TextStrings(node.members[i][2]) : i \in DOMAIN node.members}
      [] node.form \in {"new Map", "new Set", "Array.prototype.slice.call"} ->
            TextStrings(node.argument)
      [] OTHER -> {}

\* the strings of a value graph that are placeholder tokens, of any UID
PlaceholderStrings(value) == Strings(value) \cap {token.v : token \in TokenStrings}

(* C12: a string whose content is a placeholder token "@__" tag "-" id "-"  *)
(* index "__@", for any tag, any id (the UID of this session too) and any   *)
(* index, alone or next to values of the special kinds in one value graph,  *)
(* is a string with that content in the text of serializeJS and in the      *)
(* value eval makes of the text; serializeJS does not throw on it.          *)
C12_PlaceholderSafety ==
    (codec.phase # "value" /\ PlaceholderStrings(codec.value) # {})
        => /\ codec.phase # "encode threw"
           /\ PlaceholderStrings(codec.value) \subseteq TextStrings(codec.text)
           /\ codec.phase = "result"
                 => PlaceholderStrings(codec.value) \subseteq Strings(codec.result)

(* C13: when the persisted text of the data file cannot be evaluated, the   *)
(* load of the startup fails, the error reaches onload, which started the   *)
(* load, and there is no fallback to an empty store: window.pkvs is not put *)
(* in service over the empty mapping of the constructor.                    *)
C13_DecodeErrorPropagates == loadDataPc = "threw" => ~windowPkvs

(* C15: when window.pkvs is assigned, the mapping has been made from the    *)
(* persisted text; so the load of the startup never replaces a mapping in   *)
(* which a script has stored a value (the value of the last store is not    *)
(* discarded), and no flush is started with a mapping that was not made     *)
(* from the persisted text.                                                 *)
C15_StartupOrdering ==
    [][/\ windowPkvs' => loadDataPc' = "done"
       /\ (loadDataPc = "loadSettings" /\ loadDataPc' # "loadSettings"
             /\ call.op = "store" /\ call.status = "returned")
            => loadMember(data', call.key) = loadMember(data, call.key)
       /\ (~inflight.active /\ inflight'.active) => loadDataPc = "done"]_vars

\* this step is the failure of the write that the running call awaits
FlushFails == inflight.active /\ inflight.owner = "call" /\ failures' # failures

(* C14: when the host's write fails during a flush, the failure reaches the *)
(* caller of the store, delete or persist that started the flush, as it is; *)
(* that call has made exactly one write attempt, and no other write is      *)
(* started for it: a write starts only with a new call or with the toggle   *)
(* of the settings tab.                                                     *)
C14_WriteFailurePropagates ==
    [][/\ FlushFails
            => /\ call.op \in {"store", "delete", "persist"}
               /\ call.status = "running"
               /\ call' = [call EXCEPT !.status = "threw",
                                       !.error = "HostPersistenceFailure"]
               /\ call'.writes = 1
               /\ ~inflight'.active
               /\ disk' = disk
       /\ (inflight'.active /\ inflight' # inflight)
            => (Idle /\ (call' # call \/ inflight'.owner = "settings"))
       /\ call'.writes <= 1]_vars

\* the write of an eager store has failed: the call has thrown the host's
\* error after one attempt, the mapping has the value, and the data file
\* does not
C14_Witness ==
    /\ call.op = "store"
    /\ call.key = "k"
    /\ call.status = "threw"
    /\ call.error = "HostPersistenceFailure"
    /\ call.writes = 1
    /\ failures = 1
    /\ ~inflight.active
    /\ loadMember(data, "k") = call.value
    /\ disk.persistedData["k"] # JSONStringify(call.value)

\* the mapping has a built-in function under a name that serializeJS visits
HasNativeFunction(d) == \E key \in StringKeys : d.own[key].kind = "function"

\* this step is a flush attempt: a persist, the flush of the shutdown, or a
\* store or a delete that persistIfEnabled makes flush
FlushAttempt ==
    \/ NewCall("persist")
    \/ NewCall("quit")
    \/ NewMutation /\ persistIfEnabled(lazyPersistenceOverride, settings)

(* C16: a flush writes the encoding of the whole mapping or nothing.  While *)
(* the mapping has a built-in function under some key, every flush attempt  *)
(* (persist, an eager store or delete of another key, the flush of the      *)
(* shutdown) throws before a write is started, and the persisted text, in   *)
(* the settings and in the data file, stays what it was; once no key has    *)
(* one, every flush attempt starts the write of the encoding of the         *)
(* mapping.                                                                 *)
C16_FlushAllOrNothing ==
    [][/\ (FlushAttempt /\ HasNativeFunction(data'))
            => /\ call'.status = "threw"
               /\ call'.error = "TypeError"
               /\ call'.writes = 0
               /\ UNCHANGED <<settings, disk, inflight>>
       /\ (FlushAttempt /\ ~HasNativeFunction(data'))
            => /\ call'.status = "running"
               /\ call'.writes = 1
               /\ inflight'.active
               /\ SameAnswers(inflight'.settings.persistedData, data')]_vars

====
